---------------------------- MODULE Spec2Model ----------------------------
(***************************************************************************)
(* Model of database.py: the persistence and transaction layer of the shop *)
(* bot (catalog, per-user carts, cart-to-order conversion, JSON catalog    *)
(* import).                                                                *)
(*                                                                         *)
(* The store is one record `db` with one field per table; a table is the   *)
(* set of its rows and every row carries its integer primary key `id`.     *)
(* A handler is a pure operator from the committed store and its arguments *)
(* to an outcome [db, base, raised, result]: `db` is what the session sees *)
(* when the handler's body exits (flushed, possibly uncommitted rows       *)
(* included), `base` is what the database holds committed at that moment,  *)
(* `raised` tells whether the body exits by an exception and `result` is   *)
(* the returned value.  session_scope turns an outcome into the store the  *)
(* call leaves behind.                                                     *)
(*                                                                         *)
(* Python's None is <<>> and a present value x is <<x>>.  Prices are       *)
(* integers (the Float column holds whole amounts in the model).           *)
(* Order.created_at is not modelled: no operation reads it.                *)
(***************************************************************************)
EXTENDS Integers, Sequences, FiniteSets, TLC

VARIABLES
    db,      \* the committed content of shop.db
    last,    \* the call that completed last: operation, first argument, outcome,
             \* and for import_products whether the call before it imported
             \* the same snapshot
    streak,  \* per user and product: successful add_to_cart_db calls since
             \* the user's cart was last emptied
    added,   \* successful add_to_cart_db calls so far
    threads, \* SpecConc: per thread, where its add_to_cart_db call stands and
             \* the rows its session has loaded
    writer,  \* SpecConc: the thread whose session holds SQLite's write lock
             \* (an open transaction with uncommitted rows), 0 when none does
    txn,     \* SpecConc: the database as the writer's transaction sees it
    files,   \* the backups directory: file name (the time token of
             \* products_<token>.json) -> what json.load makes of the file,
             \* None when the file is not well-formed JSON
    clock,   \* datetime.now(), in whole seconds
    exported,\* the export_products calls that returned a file, in call
             \* order: the file returned and the list written
    units,   \* per user and product: successful add_to_cart_db calls so far
             \* and units that clear_cart calls have deleted
    solo     \* per user: the store as it would be had only the calls made
             \* for this user run, from the store init_db left

vars == <<db, last, streak, added, threads, writer, txn, files, clock,
          exported, units, solo>>

cvars == <<threads, writer, txn>>

bvars == <<files, clock, exported>>

---------------------------------------------------------------------------
(* Bounds of the model and input domains *)

MaxAdds == 3       \* successful add_to_cart_db calls before AddToCart is cut off
MaxProducts == 2   \* product rows the catalog may hold before add_product/import are cut off
MaxSnap == 2       \* entries of a snapshot handed to import_products
MaxThreads == 2    \* threads that call add_to_cart_db at the same time

None == <<>>
Some(x) == <<x>>

TgIds == {101, 102}              \* telegram ids callers pass
ProductIds == {1, 2, 3}          \* product ids callers pass; 3 never exists in Spec
Prices == {5, 10}

\* init_db, lines 98-104 (the five seeded category names, in English)
SeedCategories == <<"Liquid", "Disposables", "PodSystems", "Snus", "Accessories">>

---------------------------------------------------------------------------
(* Tables, rows, queries *)

MaxOf(S) == CHOOSE x \in S : \A y \in S : y <= x

\* INTEGER PRIMARY KEY of SQLite: the next rowid is the largest one in use + 1
NextId(T) == IF T = {} THEN 1 ELSE MaxOf({r.id : r \in T}) + 1

\* Query.first(): the matching row SQLite's table scan meets first
FirstRow(S) == CHOOSE r \in S : \A q \in S : r.id <= q.id

\* Query.all(): the matching rows in scan (rowid) order
RECURSIVE AllRows(_)
AllRows(S) ==
    IF S = {} THEN <<>>
    ELSE LET r == FirstRow(S) IN <<r>> \o AllRows(S \ {r})

EmptyDb ==
    [users |-> {}, categories |-> {}, products |-> {}, carts |-> {},
     cart_items |-> {}, orders |-> {}, order_items |-> {}]

Returned(d, base, result) ==
    [db |-> d, base |-> base, raised |-> FALSE, result |-> result]

Raised(d, base) ==
    [db |-> d, base |-> base, raised |-> TRUE, result |-> None]

\* session_scope with the commit in the finally clause: no rollback on error
session_scope_commit_always(out) == out.db

\* session_scope: commit when the body returns, rollback when it raises
session_scope(out) == IF out.raised THEN out.base ELSE out.db


\* session.flush() (lines 211, 218, 300): the rows reach the database inside
\* the open transaction; what is committed stays what it was
flush_commits(base, working) == working

flush(base, working) == base

\* What a call leaves behind and hands to its caller
Call(out) ==
    [db |-> session_scope(out), raised |-> out.raised, result |-> out.result]

---------------------------------------------------------------------------
(* Users *)

add_user_body(d, telegram_id, is_admin, username) ==
    LET found == {u \in d.users : u.telegram_id = telegram_id}
        user == FirstRow(found)
        new == [id |-> NextId(d.users), telegram_id |-> telegram_id,
                username |-> username, is_admin |-> is_admin]
        upd == [user EXCEPT !.is_admin = is_admin,
                            !.username = IF username # None THEN username ELSE @]
    IN  IF found = {}
        THEN Returned([d EXCEPT !.users = @ \cup {new}], d, None)
        ELSE Returned([d EXCEPT !.users = (@ \ {user}) \cup {upd}], d, None)

add_user(d, telegram_id, is_admin, username) ==
    Call(add_user_body(d, telegram_id, is_admin, username))

---------------------------------------------------------------------------
(* Cart Store *)

\* lines 207-211: the user row, inserted when the telegram id is unknown
ensure_user(d, user_id) ==
    LET found == {u \in d.users : u.telegram_id = user_id}
        new == [id |-> NextId(d.users), telegram_id |-> user_id,
                username |-> None, is_admin |-> FALSE]
    IN  IF found = {}
        THEN [db |-> [d EXCEPT !.users = @ \cup {new}], row |-> new]
        ELSE [db |-> d, row |-> FirstRow(found)]

\* lines 214-218: the user's cart row, inserted when there is none
ensure_cart(d, user) ==
    LET found == {c \in d.carts : c.user_id = user.id}
        new == [id |-> NextId(d.carts), user_id |-> user.id]
    IN  IF found = {}
        THEN [db |-> [d EXCEPT !.carts = @ \cup {new}], row |-> new]
        ELSE [db |-> d, row |-> FirstRow(found)]

\* lines 226-239 without the lookup: a new row on every call
upsert_cart_item_always_insert(d, cart_id, product_id) ==
    [d EXCEPT !.cart_items = @ \cup
        {[id |-> NextId(d.cart_items), cart_id |-> cart_id,
          product_id |-> product_id, quantity |-> 1]}]

\* lines 226-239 with `cart_item.quantity = 1` for `+= 1`
upsert_cart_item_reset(d, cart_id, product_id) ==
    LET found == {i \in d.cart_items :
                    i.cart_id = cart_id /\ i.product_id = product_id}
        cart_item == FirstRow(found)
    IN  IF found # {}
        THEN [d EXCEPT !.cart_items =
                (@ \ {cart_item}) \cup {[cart_item EXCEPT !.quantity = 1]}]
        ELSE upsert_cart_item_always_insert(d, cart_id, product_id)

\* lines 226-239: increment the matching cart item or insert one of quantity 1
upsert_cart_item(d, cart_id, product_id) ==
    LET found == {i \in d.cart_items :
                    i.cart_id = cart_id /\ i.product_id = product_id}
        cart_item == FirstRow(found)
    IN  IF found # {}
        THEN [d EXCEPT !.cart_items =
                (@ \ {cart_item}) \cup {[cart_item EXCEPT !.quantity = @ + 1]}]
        ELSE [d EXCEPT !.cart_items = @ \cup
                {[id |-> NextId(d.cart_items), cart_id |-> cart_id,
                  product_id |-> product_id, quantity |-> 1]}]

\* Where a simulated failure strikes add_to_cart_db: right after the user
\* block (line 211), right after the cart block (line 218), or at the commit
\* (line 241)
AddFailPoints == {"none", "user", "cart", "commit"}

\* lines 204-244.  Every exception is caught at line 242: the session is
\* rolled back to what is committed and the exception is raised again.
add_to_cart_db_body(d, user_id, product_id, fail) ==
    LET u == ensure_user(d, user_id)
        base1 == IF u.db # d THEN flush(d, u.db) ELSE d
        c == ensure_cart(u.db, u.row)
        base2 == IF c.db # u.db THEN flush(base1, c.db) ELSE base1
        product == {p \in c.db.products : p.id = product_id}
        d3 == upsert_cart_item(c.db, c.row.id, product_id)
    IN  IF fail = "user" THEN Raised(base1, base1)
        ELSE IF fail = "cart" THEN Raised(base2, base2)
        ELSE IF product = {} THEN Raised(base2, base2)
        ELSE IF fail = "commit" THEN Raised(base2, base2)
        ELSE Returned(d3, d3, None)

add_to_cart_db(d, user_id, product_id, fail) ==
    Call(add_to_cart_db_body(d, user_id, product_id, fail))

\* lines 280, 311 without the filter: session.query(CartItem).delete()
delete_cart_items_of_all_carts(d, cart_id) ==
    [d EXCEPT !.cart_items = {}]

\* session.query(CartItem).filter_by(cart_id=cart.id).delete(), lines 280, 311
delete_cart_items(d, cart_id) ==
    [d EXCEPT !.cart_items = {i \in @ : i.cart_id # cart_id}]

\* lines 271-281 with `return True` for the `return False` of line 278
clear_cart_body_true_without_cart(d, user_id) ==
    LET users == {u \in d.users : u.telegram_id = user_id}
        user == FirstRow(users)
        carts == {c \in d.carts : c.user_id = user.id}
        cart == FirstRow(carts)
    IN  IF users = {} THEN Returned(d, d, FALSE)
        ELSE IF carts = {} THEN Returned(d, d, TRUE)
        ELSE Returned(delete_cart_items(d, cart.id), d, TRUE)

\* lines 271-281 with a second delete at line 280: the user's orders and
\* their items
clear_cart_body_drop_orders(d, user_id) ==
    LET users == {u \in d.users : u.telegram_id = user_id}
        user == FirstRow(users)
        carts == {c \in d.carts : c.user_id = user.id}
        cart == FirstRow(carts)
        theirs == {o.id : o \in {x \in d.orders : x.user_id = user.id}}
        d1 == delete_cart_items(d, cart.id)
    IN  IF users = {} THEN Returned(d, d, FALSE)
        ELSE IF carts = {} THEN Returned(d, d, FALSE)
        ELSE Returned([d1 EXCEPT !.orders = {o \in @ : o.id \notin theirs},
                                 !.order_items =
                                     {i \in @ : i.order_id \notin theirs}],
                      d, TRUE)

\* lines 271-281
clear_cart_body(d, user_id) ==
    LET users == {u \in d.users : u.telegram_id = user_id}
        user == FirstRow(users)
        carts == {c \in d.carts : c.user_id = user.id}
        cart == FirstRow(carts)
    IN  IF users = {} THEN Returned(d, d, FALSE)
        ELSE IF carts = {} THEN Returned(d, d, FALSE)
        ELSE Returned(delete_cart_items(d, cart.id), d, TRUE)

clear_cart(d, user_id) == Call(clear_cart_body(d, user_id))

---------------------------------------------------------------------------
(* Order Engine *)

\* item.product (lazy load through CartItem.product_id / OrderItem.product_id)
product_of(d, item) == {p \in d.products : p.id = item.product_id}

\* lines 303-308 with `quantity=1` for `quantity=item.quantity`
order_item_of_unit_quantity(d, order_id, item) ==
    [id |-> NextId(d.order_items), order_id |-> order_id,
     product_id |-> item.product_id, quantity |-> 1,
     price |-> FirstRow(product_of(d, item)).price]

\* lines 303-308: the OrderItem built from one CartItem
order_item_of(d, order_id, item) ==
    [id |-> NextId(d.order_items), order_id |-> order_id,
     product_id |-> item.product_id, quantity |-> item.quantity,
     price |-> FirstRow(product_of(d, item)).price]

\* lines 302-309 with a `break` at the end of the loop body: only the first
\* CartItem is copied
copy_items_first_only(d, order_id, items, k) ==
    IF k = 0 THEN d
    ELSE [d EXCEPT !.order_items =
             @ \cup {order_item_of(d, order_id, items[1])}]

\* lines 302-309: the first k iterations of the loop over the cart's items
RECURSIVE copy_items(_, _, _, _)
copy_items(d, order_id, items, k) ==
    IF k = 0 THEN d
    ELSE LET d0 == copy_items(d, order_id, items, k - 1)
         IN  [d0 EXCEPT !.order_items =
                 @ \cup {order_item_of(d0, order_id, items[k])}]

\* Where a simulated failure strikes create_order: after the Order row is
\* flushed (line 300), after the first OrderItem is added (line 309), or
\* after the cart's rows are deleted (line 311)
OrderFailPoints == {"none", "flush", "item", "delete"}

\* lines 285-312 without the `if not items` test
create_order_body_no_empty_check(d, user_id, fail) ==
    LET users == {u \in d.users : u.telegram_id = user_id}
        user == FirstRow(users)
        carts == {c \in d.carts : c.user_id = user.id}
        cart == FirstRow(carts)
        items == AllRows({i \in d.cart_items : i.cart_id = cart.id})
        order == [id |-> NextId(d.orders), user_id |-> user.id]
        d1 == [d EXCEPT !.orders = @ \cup {order}]
        d2 == copy_items(d1, order.id, items, Len(items))
    IN  IF users = {} THEN Returned(d, d, None)
        ELSE IF carts = {} THEN Returned(d, d, None)
        ELSE Returned(delete_cart_items(d2, cart.id), d, Some(order.id))

\* lines 285-312
create_order_body(d, user_id, fail) ==
    LET users == {u \in d.users : u.telegram_id = user_id}
        user == FirstRow(users)
        carts == {c \in d.carts : c.user_id = user.id}
        cart == FirstRow(carts)
        items == AllRows({i \in d.cart_items : i.cart_id = cart.id})
        n == Len(items)
        order == [id |-> NextId(d.orders), user_id |-> user.id]
        d1 == [d EXCEPT !.orders = @ \cup {order}]
        base1 == flush(d, d1)
        \* item.product is None for a dangling product_id: AttributeError
        missing == {k \in 1..n : product_of(d, items[k]) = {}}
        d2 == copy_items(d1, order.id, items, n)
        d3 == delete_cart_items(d2, cart.id)
    IN  IF users = {} THEN Returned(d, d, None)
        ELSE IF carts = {} THEN Returned(d, d, None)
        ELSE IF n = 0 THEN Returned(d, d, None)
        ELSE IF fail = "flush" THEN Raised(d1, base1)
        ELSE IF missing # {}
             THEN Raised(copy_items(d1, order.id, items, MaxOf({0} \cup
                         {k \in 1..n : \A j \in 1..k : j \notin missing})), base1)
        ELSE IF fail = "item" THEN Raised(copy_items(d1, order.id, items, 1), base1)
        ELSE IF fail = "delete" THEN Raised(d3, base1)
        ELSE Returned(d3, base1, Some(order.id))

create_order(d, user_id, fail) == Call(create_order_body(d, user_id, fail))

RECURSIVE SumSeq(_)
SumSeq(s) == IF s = <<>> THEN 0 ELSE Head(s) + SumSeq(Tail(s))

\* line 334 without the quantity: sum(item.price for item in items)
order_total_ignores_quantity(d, items) ==
    SumSeq([k \in 1..Len(items) |-> items[k].price])

\* line 334 with `item.product.price` for `item.price`
order_total_current_price(d, items) ==
    SumSeq([k \in 1..Len(items) |->
              FirstRow(product_of(d, items[k])).price * items[k].quantity])

\* line 334: sum(item.price * item.quantity for item in items)
order_total(d, items) ==
    SumSeq([k \in 1..Len(items) |-> items[k].price * items[k].quantity])

\* lines 316-335
get_order_details_body(d, order_id) ==
    LET orders == {o \in d.orders : o.id = order_id}
        order == FirstRow(orders)
        items == AllRows({i \in d.order_items : i.order_id = order_id})
        owners == {u \in d.users : u.id = order.user_id}
        user == FirstRow(owners)
        dangling == {k \in 1..Len(items) : product_of(d, items[k]) = {}}
    IN  IF orders = {} THEN Returned(d, d, None)
        ELSE IF owners = {} \/ dangling # {} THEN Raised(d, d)
        ELSE Returned(d, d, Some(
               [order_id |-> order.id,
                user_id  |-> user.telegram_id,
                username |-> IF user.username # None
                             THEN "@" \o user.username[1] ELSE "unspecified",
                items    |-> [k \in 1..Len(items) |->
                                 [name |-> FirstRow(product_of(d, items[k])).name,
                                  quantity |-> items[k].quantity,
                                  price |-> items[k].price]],
                total    |-> order_total(d, items)]))

get_order_details(d, order_id) == Call(get_order_details_body(d, order_id))

---------------------------------------------------------------------------
(* Catalog Store and Catalog Exchange *)

\* lines 175-185
add_product_body(d, name, description, price, category_name, image_path) ==
    LET found == {c \in d.categories : c.name = category_name}
        category == FirstRow(found)
        product == [id |-> NextId(d.products), name |-> name,
                    description |-> description, price |-> price,
                    image_path |-> image_path, category_id |-> category.id]
    IN  IF found # {}
        THEN Returned([d EXCEPT !.products = @ \cup {product}], d, None)
        ELSE Returned(d, d, None)

add_product(d, name, description, price, category_name, image_path) ==
    Call(add_product_body(d, name, description, price, category_name, image_path))

\* lines 394-415 without the lookup of an existing product
import_entry_always_insert(d, product_data) ==
    LET found == {c \in d.categories : c.name = product_data.category}
        category == FirstRow(found)
    IN  IF found = {} THEN d
        ELSE [d EXCEPT !.products = @ \cup
                {[id |-> NextId(d.products), name |-> product_data.name,
                  description |-> product_data.description,
                  price |-> product_data.price,
                  image_path |-> product_data.image_path,
                  category_id |-> category.id]}]

\* lines 394-415 with an update of the product found: it takes the entry's
\* description, price and image_path
import_entry_update_existing(d, product_data) ==
    LET found == {c \in d.categories : c.name = product_data.category}
        category == FirstRow(found)
        existing_product == {p \in d.products :
                               /\ p.name = product_data.name
                               /\ p.category_id = category.id}
    IN  IF found = {} THEN d
        ELSE IF existing_product # {}
        THEN [d EXCEPT !.products =
                (@ \ existing_product) \cup
                {[p EXCEPT !.description = product_data.description,
                           !.price = product_data.price,
                           !.image_path = product_data.image_path] :
                     p \in existing_product}]
        ELSE [d EXCEPT !.products = @ \cup
                {[id |-> NextId(d.products), name |-> product_data.name,
                  description |-> product_data.description,
                  price |-> product_data.price,
                  image_path |-> product_data.image_path,
                  category_id |-> category.id]}]

\* lines 394-415: one iteration of the import loop.  Each query flushes the
\* session first (autoflush), so products added by earlier iterations are seen.
import_entry(d, product_data) ==
    LET found == {c \in d.categories : c.name = product_data.category}
        category == FirstRow(found)
        existing_product == {p \in d.products :
                               /\ p.name = product_data.name
                               /\ p.category_id = category.id}
    IN  IF found = {} THEN d
        ELSE IF existing_product # {} THEN d
        ELSE [d EXCEPT !.products = @ \cup
                {[id |-> NextId(d.products), name |-> product_data.name,
                  description |-> product_data.description,
                  price |-> product_data.price,
                  image_path |-> product_data.image_path,
                  category_id |-> category.id]}]

\* lines 395-412: product_data lacks a key this iteration reads (KeyError).
\* 'category' is read first; the warning of line 397 reads 'name'; the
\* lookup of line 401 reads 'name'; 'description', 'price' and 'image_path'
\* are read only when no product carries the (name, category) yet.
missing_key(d, product_data) ==
    LET has(key) == key \in DOMAIN product_data
        found == {c \in d.categories : c.name = product_data.category}
        category == FirstRow(found)
        existing_product == {p \in d.products :
                               /\ p.name = product_data.name
                               /\ p.category_id = category.id}
    IN  IF ~has("category") THEN TRUE
        ELSE IF ~has("name") THEN TRUE
        ELSE IF found = {} THEN FALSE
        ELSE IF existing_product # {} THEN FALSE
        ELSE ~(has("description") /\ has("price") /\ has("image_path"))

\* lines 393-415 with `break` for `continue` at an unknown category
RECURSIVE import_loop_stop_at_unknown(_, _)
import_loop_stop_at_unknown(d, products_data) ==
    IF products_data = <<>> THEN [db |-> d, raised |-> FALSE]
    ELSE IF missing_key(d, Head(products_data))
    THEN [db |-> d, raised |-> TRUE]
    ELSE IF {c \in d.categories : c.name = Head(products_data).category} = {}
    THEN [db |-> d, raised |-> FALSE]
    ELSE import_loop_stop_at_unknown(import_entry(d, Head(products_data)),
                                     Tail(products_data))

\* lines 393-415: the loop over the snapshot's entries, in file order.  The
\* loop ends at the snapshot's end or at the first iteration that raises
\* KeyError; `db` is the session's view at that point.
RECURSIVE import_loop(_, _)
import_loop(d, products_data) ==
    IF products_data = <<>> THEN [db |-> d, raised |-> FALSE]
    ELSE IF missing_key(d, Head(products_data))
    THEN [db |-> d, raised |-> TRUE]
    ELSE import_loop(import_entry(d, Head(products_data)), Tail(products_data))

\* lines 392-419 where a KeyError is swallowed: the entry is skipped, the
\* loop goes on and the transaction commits
RECURSIVE import_loop_skip_malformed(_, _)
import_loop_skip_malformed(d, products_data) ==
    IF products_data = <<>> THEN d
    ELSE IF missing_key(d, Head(products_data))
    THEN import_loop_skip_malformed(d, Tail(products_data))
    ELSE import_loop_skip_malformed(import_entry(d, Head(products_data)),
                                    Tail(products_data))

import_products_body_skip_malformed(d, products_data) ==
    LET d1 == import_loop_skip_malformed(d, products_data)
    IN  Returned(d1, d1, TRUE)

\* lines 392-419: the transaction of import_products.  Nothing is committed
\* before line 417, so an exception in the loop leaves `base` at d.
import_products_body(d, products_data) ==
    LET run == import_loop(d, products_data)
    IN  IF run.raised THEN Raised(run.db, d)
        ELSE Returned(run.db, run.db, TRUE)

\* lines 372-422.  `loaded` is what lines 376-390 obtain: None when there is
\* no backup directory, no backup file, or the file cannot be read or parsed,
\* else the parsed list.  Every exception ends in `return False`.
import_products(d, loaded) ==
    IF loaded = None THEN [db |-> d, raised |-> FALSE, result |-> FALSE]
    ELSE LET out == import_products_body(d, loaded[1])
         IN  [db |-> session_scope(out), raised |-> FALSE,
              result |-> IF out.raised THEN FALSE ELSE out.result]

\* lines 93-122: seeded categories, the admin of ADMIN_IDS (0: none), then
\* the import of the latest backup
init_db(admin_id, backup) ==
    LET cats == {[id |-> k, name |-> SeedCategories[k]] :
                    k \in 1..Len(SeedCategories)}
        admin == IF admin_id # 0
                 THEN {[id |-> 1, telegram_id |-> admin_id,
                        username |-> None, is_admin |-> TRUE]}
                 ELSE {}
        d1 == [EmptyDb EXCEPT !.categories = cats, !.users = admin]
    IN  import_products(d1, backup).db

\* lines 341-352: the list export_products builds, one entry per Product in
\* the order of the query (SQLite scans the table by id)
products_data_of(d) ==
    LET products == AllRows(d.products)
    IN  [k \in 1..Len(products) |->
            [name |-> products[k].name,
             description |-> products[k].description,
             price |-> products[k].price,
             category |-> FirstRow({c \in d.categories :
                              c.id = products[k].category_id}).name,
             image_path |-> products[k].image_path]]

\* Where a simulated failure strikes export_products: open() of line 363
ExportFailPoints == {"none", "open"}

\* lines 359-367: the file is named by the second `now` and opened with
\* mode 'w', which replaces a file of that name
write_backup(fs, now, products_data) ==
    [files |-> [n \in DOMAIN fs \cup {now} |->
                   IF n = now THEN Some(products_data) ELSE fs[n]],
     result |-> Some(now)]

\* lines 337-370 on the directory fs at the second `now`: the directory
\* afterwards and the file returned.  product.category is None for a product
\* whose category row is missing (AttributeError); every exception ends in
\* `return None`.  The session writes nothing.
export_products(d, fs, now, fail) ==
    IF \E p \in d.products : \A c \in d.categories : c.id # p.category_id
    THEN [files |-> fs, result |-> None]
    ELSE IF fail = "open" THEN [files |-> fs, result |-> None]
    ELSE write_backup(fs, now, products_data_of(d))

\* lines 376-386: the file import_products reads; backup_file is None when
\* the caller names none, and then the file with the largest name is taken
backup_file_of(fs, backup_file) ==
    IF backup_file # None THEN backup_file
    ELSE IF DOMAIN fs = {} THEN None
    ELSE Some(MaxOf(DOMAIN fs))

\* lines 376-390: what import_products loads, None when there is no file to
\* read (lines 379, 384, or open() raising) or json.load raises
read_backup(fs, backup_file) ==
    LET file == backup_file_of(fs, backup_file)
    IN  IF file = None THEN None
        ELSE IF file[1] \notin DOMAIN fs THEN None
        ELSE fs[file[1]]

\* import_products(backup_file) on the directory fs
import_backup(d, fs, backup_file) ==
    import_products(d, read_backup(fs, backup_file))

---------------------------------------------------------------------------
(* The cart-to-order engine, one call at a time *)

\* The backup init_db finds in Spec: product A at 10 and product B at 5
InitBackup ==
    <<[name |-> "A", description |-> "a", price |-> 10,
       category |-> "Liquid", image_path |-> "a.jpg"],
      [name |-> "B", description |-> "b", price |-> 5,
       category |-> "Snus", image_path |-> "b.jpg"]>>

NoStreak == [t \in TgIds |-> [p \in ProductIds |-> 0]]

NoUnits == [t \in TgIds |-> [p \in ProductIds |-> [adds |-> 0, cleared |-> 0]]]

\* An empty backups directory
NoFiles == [n \in {} |-> None]

\* Units of product p that the CartItem rows `items` hold
Quantity(items, p) ==
    LET rows == {i \in items : i.product_id = p}
    IN  IF rows = {} THEN 0 ELSE FirstRow(rows).quantity

\* No export_products call has been made: the backups directory holds the
\* file init_db read, written before the clock's first second
NoExport ==
    /\ files = [n \in {0} |-> Some(InitBackup)]
    /\ clock = 1
    /\ exported = <<>>

Threads == 1..MaxThreads

IdleThread ==
    [pc |-> "idle", user_id |-> 0, product_id |-> 0, user |-> None,
     cart |-> None, cart_item |-> None, items |-> <<>>, order |-> None]

NoTxn == EmptyDb

NoThreads ==
    /\ threads = [i \in Threads |-> IdleThread]
    /\ writer = 0
    /\ txn = NoTxn

\* `last` before any call: init_db has run
NoCall ==
    [op |-> "init_db", arg |-> 0, raised |-> FALSE, result |-> None,
     again |-> FALSE]

Init ==
    /\ db = init_db(0, Some(InitBackup))
    /\ last = NoCall
    /\ streak = NoStreak
    /\ added = 0
    /\ units = NoUnits
    /\ solo = [t \in TgIds |-> db]
    /\ NoThreads
    /\ NoExport

\* The call `op` with first argument `arg` completes with outcome r
Completes(op, arg, r) ==
    /\ db' = r.db
    /\ last' = [op |-> op, arg |-> arg, raised |-> r.raised,
                result |-> r.result, again |-> FALSE]
    /\ UNCHANGED <<cvars, bvars>>

\* Rows of product p in the carts of the user with telegram id t
CartRows(d, t, p) ==
    {i \in d.cart_items :
        /\ i.product_id = p
        /\ \E c \in d.carts : \E u \in d.users :
              c.id = i.cart_id /\ u.id = c.user_id /\ u.telegram_id = t}

\* The calls of a user, without the bookkeeping of `units` and `solo`
AddUser(t, adm, name) ==
    /\ Completes("add_user", t, add_user(db, t, adm, name))
    /\ UNCHANGED <<streak, added, units, solo>>

AddToCartCall(t, p, f) ==
    LET r == add_to_cart_db(db, t, p, f)
    IN  /\ added < MaxAdds
        /\ Completes("add_to_cart_db", t, r)
        /\ streak' = IF r.raised THEN streak
                     ELSE [streak EXCEPT ![t][p] = @ + 1]
        /\ added' = IF r.raised THEN added ELSE added + 1

ClearCartCall(t) ==
    LET r == clear_cart(db, t)
    IN  /\ Completes("clear_cart", t, r)
        /\ streak' = IF r.result = TRUE
                     THEN [streak EXCEPT ![t] = [p \in ProductIds |-> 0]]
                     ELSE streak
        /\ UNCHANGED added

CreateOrderCall(t, f) ==
    LET r == create_order(db, t, f)
    IN  /\ Completes("create_order", t, r)
        /\ streak' = IF r.result # None
                     THEN [streak EXCEPT ![t] = [p \in ProductIds |-> 0]]
                     ELSE streak
        /\ UNCHANGED added

AddToCart(t, p, f) == AddToCartCall(t, p, f) /\ UNCHANGED <<units, solo>>

ClearCart(t) == ClearCartCall(t) /\ UNCHANGED <<units, solo>>

CreateOrder(t, f) == CreateOrderCall(t, f) /\ UNCHANGED <<units, solo>>

\* The same calls in SpecPair, which counts the units added and cleared and
\* makes each call on the store of the caller alone as well
PairAddToCart(t, p, f) ==
    /\ AddToCartCall(t, p, f)
    /\ units' = IF add_to_cart_db(db, t, p, f).raised THEN units
                ELSE [units EXCEPT ![t][p].adds = @ + 1]
    /\ solo' = [solo EXCEPT ![t] = add_to_cart_db(@, t, p, f).db]

PairClearCart(t) ==
    LET gone == db.cart_items \ clear_cart(db, t).db.cart_items
    IN  /\ ClearCartCall(t)
        /\ units' = [units EXCEPT ![t] = [p \in ProductIds |->
                        [@[p] EXCEPT !.cleared = @ + Quantity(gone, p)]]]
        /\ solo' = [solo EXCEPT ![t] = clear_cart(@, t).db]

PairCreateOrder(t, f) ==
    /\ CreateOrderCall(t, f)
    /\ solo' = [solo EXCEPT ![t] = create_order(@, t, f).db]
    /\ UNCHANGED units

GetOrderDetails(o) ==
    /\ Completes("get_order_details", o, get_order_details(db, o))
    /\ UNCHANGED <<streak, added, units, solo>>

\* The catalog's owner changes a product's price (Product.price, line 35)
SetProductPrice(p, price) ==
    /\ \E row \in db.products :
          /\ row.id = p
          /\ row.price # price
          /\ db' = [db EXCEPT !.products =
                       (@ \ {row}) \cup {[row EXCEPT !.price = price]}]
    /\ last' = [op |-> "set_price", arg |-> p, raised |-> FALSE,
                result |-> None, again |-> FALSE]
    /\ UNCHANGED <<streak, added, units, solo>>
    /\ UNCHANGED <<cvars, bvars>>

\* Spec: the cart store and the order engine for two users, every call with
\* every failure point, at fixed prices
Next ==
    \/ \E t \in TgIds : AddUser(t, FALSE, None)
    \/ \E t \in TgIds, p \in ProductIds, f \in AddFailPoints : AddToCart(t, p, f)
    \/ \E t \in TgIds : ClearCart(t)
    \/ \E t \in TgIds, f \in OrderFailPoints : CreateOrder(t, f)

Spec == Init /\ [][Next]_vars

\* SpecPair: the calls of two users following one another in every order,
\* on the two products of the catalog, each call completing or failing at
\* its last statement
NextPair ==
    \/ \E t \in TgIds, p \in {1, 2}, f \in {"none", "commit"} :
          PairAddToCart(t, p, f)
    \/ \E t \in TgIds : PairClearCart(t)
    \/ \E t \in TgIds, f \in {"none", "delete"} : PairCreateOrder(t, f)

SpecPair == Init /\ [][NextPair]_vars

\* the order ids handed to get_order_details: the first order, and a second
\* one that exists only after two orders were placed
OrderIds == {1, 2}

\* SpecPrice: orders of two users while the price of product 1 changes
NextPrice ==
    \/ \E t \in TgIds, p \in {1, 2} : AddToCart(t, p, "none")
    \/ \E t \in TgIds : CreateOrder(t, "none")
    \/ \E price \in Prices : SetProductPrice(1, price)
    \/ \E o \in OrderIds : GetOrderDetails(o)

SpecPrice == Init /\ [][NextPrice]_vars

---------------------------------------------------------------------------
(* The catalog exchange, one call at a time *)

Entry(name, price, category) ==
    [name |-> name, description |-> "d", price |-> price,
     category |-> category, image_path |-> "img"]

\* What snapshots and add_product calls are made of: two names, two
\* categories that exist, two prices, one category that does not exist
Entries ==
    {Entry("A", 10, "Liquid"), Entry("B", 5, "Liquid"),
     Entry("A", 10, "Snus"), Entry("A", 10, "Unknown")}

RECURSIVE SeqsUpTo(_, _)
SeqsUpTo(S, n) ==
    IF n = 0 THEN {<<>>}
    ELSE LET shorter == SeqsUpTo(S, n - 1)
         IN  shorter \cup {Append(q, e) : q \in shorter, e \in S}

\* The well-formed snapshots: up to MaxSnap entries, repetitions included
Snapshots == SeqsUpTo(Entries, MaxSnap)

InitCatalog ==
    /\ db = init_db(0, None)
    /\ last = NoCall
    /\ streak = NoStreak
    /\ added = 0
    /\ units = NoUnits
    /\ solo = [t \in TgIds |-> db]
    /\ NoThreads
    /\ files = NoFiles
    /\ clock = 1
    /\ exported = <<>>

AddProduct(e) ==
    LET r == add_product(db, e.name, e.description, e.price, e.category,
                         e.image_path)
    IN  /\ Cardinality(r.db.products) <= MaxProducts
        /\ Completes("add_product", e, r)
        /\ UNCHANGED <<streak, added, units, solo>>

\* import_products(backup_file) where the file holds `loaded`
ImportProducts(loaded) ==
    LET r == import_products(db, loaded)
    IN  /\ Cardinality(r.db.products) <= MaxProducts
        /\ db' = r.db
        /\ last' = [op |-> "import_products", arg |-> loaded,
                    raised |-> r.raised, result |-> r.result,
                    again |-> (last.op = "import_products" /\ last.arg = loaded)]
        /\ UNCHANGED <<streak, added, units, solo>>
        /\ UNCHANGED <<cvars, bvars>>

NextCatalog ==
    \/ \E e \in Entries : AddProduct(e)
    \/ \E S \in Snapshots : ImportProducts(Some(S))
    \/ ImportProducts(None)

SpecCatalog == InitCatalog /\ [][NextCatalog]_vars

---------------------------------------------------------------------------
(* The shop as a whole: carts, orders and the catalog exchange *)

MaxClock == 2      \* seconds the clock runs through
MaxExports == 2    \* export_products calls that return a file
MaxShopAdds == 2   \* successful add_to_cart_db calls in SpecShop

\* A second passes
Tick ==
    /\ clock < MaxClock
    /\ clock' = clock + 1
    /\ UNCHANGED <<db, last, streak, added, units, solo, files, exported, cvars>>

ExportProducts(fail) ==
    LET r == export_products(db, files, clock, fail)
    IN  /\ Len(exported) < MaxExports
        /\ files' = r.files
        /\ exported' = IF r.result = None THEN exported
                       ELSE Append(exported, [file |-> r.result[1],
                                              content |-> products_data_of(db)])
        /\ last' = [op |-> "export_products", arg |-> clock, raised |-> FALSE,
                    result |-> r.result, again |-> FALSE]
        /\ UNCHANGED <<db, streak, added, units, solo, clock, cvars>>

\* import_products(backup_file) on the backups directory
ImportBackup(backup_file) ==
    LET loaded == read_backup(files, backup_file)
        r == import_backup(db, files, backup_file)
    IN  /\ Cardinality(r.db.products) <= MaxProducts
        /\ db' = r.db
        /\ last' = [op |-> "import_products", arg |-> loaded,
                    raised |-> r.raised, result |-> r.result,
                    again |-> (last.op = "import_products" /\ last.arg = loaded)]
        /\ UNCHANGED <<streak, added, units, solo>>
        /\ UNCHANGED <<cvars, bvars>>

\* The shop's operator copies a file into the backups directory under the
\* name n
PutFile(n, content) ==
    /\ n \notin DOMAIN files
    /\ files' = [m \in DOMAIN files \cup {n} |->
                    IF m = n THEN content ELSE files[m]]
    /\ last' = [op |-> "put_file", arg |-> n, raised |-> FALSE,
                result |-> None, again |-> FALSE]
    /\ UNCHANGED <<db, streak, added, units, solo, clock, exported, cvars>>

\* The backup init_db finds in SpecShop: product A alone
ShopBackup == SubSeq(InitBackup, 1, 1)

\* A snapshot the operator brings: product A of ShopBackup at another price
\* and with another description, and a product the shop does not have
ShopSnapshot ==
    <<[name |-> "A", description |-> "new", price |-> 5,
       category |-> "Liquid", image_path |-> "new.jpg"],
      [name |-> "C", description |-> "c", price |-> 5,
       category |-> "Snus", image_path |-> "c.jpg"]>>

InitShop ==
    /\ db = init_db(0, Some(ShopBackup))
    /\ last = NoCall
    /\ streak = NoStreak
    /\ added = 0
    /\ units = NoUnits
    /\ solo = [t \in TgIds |-> db]
    /\ NoThreads
    /\ files = [n \in {0} |-> Some(ShopBackup)]
    /\ clock = 1
    /\ exported = <<>>

NextShop ==
    \/ \E t \in TgIds : AddUser(t, FALSE, None)
    \/ \E t \in TgIds : added < MaxShopAdds /\ AddToCart(t, 1, "none")
    \/ \E t \in TgIds : ClearCart(t)
    \/ \E t \in TgIds, f \in OrderFailPoints : CreateOrder(t, f)
    \/ \E fail \in ExportFailPoints : ExportProducts(fail)
    \/ PutFile(MaxClock, Some(ShopSnapshot))
    \/ ImportBackup(None)

SpecShop == InitShop /\ [][NextShop]_vars

---------------------------------------------------------------------------
(* The catalog exchange on the backups directory *)

\* Entry e without the key `key`
Without(e, key) == [k \in DOMAIN e \ {key} |-> e[k]]

\* The files the operator brings: one that is not well-formed JSON; a
\* snapshot whose second entry lacks 'price', for a product the store does
\* not have; a snapshot whose second entry lacks 'price' and repeats the
\* (name, category) of the first; a snapshot whose second entry names an
\* unknown category and lacks 'name'
OperatorFiles ==
    {None,
     Some(<<Entry("B", 10, "Snus"), Without(Entry("C", 5, "Snus"), "price")>>),
     Some(<<Entry("B", 10, "Snus"), Without(Entry("B", 5, "Snus"), "price")>>),
     Some(<<Entry("B", 10, "Snus"), Without(Entry("C", 5, "Unknown"), "name")>>)}

\* The name the operator's file gets: older than every export
OperatorFile == 0

NextBackup ==
    \/ AddProduct(Entry("A", 10, "Liquid"))
    \/ \E fail \in ExportFailPoints : ExportProducts(fail)
    \/ Tick
    \/ \E content \in OperatorFiles : PutFile(OperatorFile, content)
    \/ ImportBackup(None)
    \/ \E n \in 0..MaxClock : ImportBackup(Some(n))

SpecBackup == InitCatalog /\ [][NextBackup]_vars

---------------------------------------------------------------------------
(* add_to_cart_db called from several threads at once *)

(***************************************************************************)
(* Session = scoped_session(...) gives every thread a session of its own   *)
(* on the one SQLite file.  With the sqlite3 driver a SELECT opens no      *)
(* transaction: it reads what is committed (plus the thread's own          *)
(* uncommitted rows) and holds no lock afterwards.  The first INSERT or    *)
(* UPDATE of a session opens a transaction and takes the write lock until  *)
(* commit or rollback; a second writer waits for the lock and gets         *)
(* "database is locked" when the busy timeout expires.  Objects a session  *)
(* has loaded are not read again: `cart_item.quantity += 1` is flushed as  *)
(* UPDATE ... SET quantity = <loaded value + 1> WHERE id = <row id>.       *)
(***************************************************************************)

\* The store as thread i's next statement sees it
View(i) == IF writer = i THEN txn ELSE db

\* Thread i's statement writes: it holds or takes the write lock
CanWrite(i) == writer \in {0, i}

\* The states SpecConc starts from: what sequential calls have left
ConcStarts ==
    LET d0 == init_db(0, Some(InitBackup))
        d1 == add_to_cart_db(d0, 101, 1, "none").db
        one == [NoStreak EXCEPT ![101][1] = 1]
        u1 == [NoUnits EXCEPT ![101][1].adds = 1]
        alone(d) == [t \in TgIds |-> IF t = 101 THEN d ELSE d0]
    IN  {[db |-> d0, streak |-> NoStreak, added |-> 0, units |-> NoUnits,
          solo |-> alone(d0)],
         [db |-> add_user(d0, 101, FALSE, None).db, streak |-> NoStreak,
          added |-> 0, units |-> NoUnits,
          solo |-> alone(add_user(d0, 101, FALSE, None).db)],
         [db |-> d1, streak |-> one, added |-> 1, units |-> u1,
          solo |-> alone(d1)],
         [db |-> clear_cart(d1, 101).db, streak |-> NoStreak, added |-> 1,
          units |-> [u1 EXCEPT ![101][1].cleared = 1],
          solo |-> alone(clear_cart(d1, 101).db)]}

InitConc ==
    /\ \E s \in ConcStarts :
          db = s.db /\ streak = s.streak /\ added = s.added
                    /\ units = s.units /\ solo = s.solo
    /\ last = NoCall
    /\ NoThreads
    /\ NoExport

\* Where a thread's create_order call stands: before the query of line 286,
\* 290 or 294, before the flush of line 300, before lines 302-312
OrderPcs == {"o_user", "o_cart", "o_items", "o_flush", "o_commit"}

\* Thread i's call ends by an exception: lines 242-244 and 87-89 roll the
\* session back, which ends its transaction and frees the lock
Fails(i) ==
    /\ threads' = [threads EXCEPT ![i].pc = "failed"]
    /\ writer' = IF writer = i THEN 0 ELSE writer
    /\ txn' = IF writer = i THEN NoTxn ELSE txn
    /\ last' = [op |-> IF threads[i].pc \in OrderPcs THEN "create_order"
                       ELSE "add_to_cart_db",
                arg |-> threads[i].user_id,
                raised |-> TRUE, result |-> None, again |-> FALSE]
    /\ UNCHANGED <<db, streak, added, units, solo, bvars>>

\* Thread i enters add_to_cart_db(user_id, product_id)
Start(i, user_id, product_id) ==
    /\ threads[i].pc = "idle"
    /\ threads' = [threads EXCEPT ![i] =
          [IdleThread EXCEPT !.pc = "q_user", !.user_id = user_id,
                             !.product_id = product_id]]
    /\ UNCHANGED <<db, last, streak, added, writer, txn, units, solo, bvars>>

\* line 207
QueryUser(i) ==
    LET found == {u \in View(i).users : u.telegram_id = threads[i].user_id}
    IN  /\ threads[i].pc = "q_user"
        /\ threads' = IF found = {}
                      THEN [threads EXCEPT ![i].pc = "ins_user"]
                      ELSE [threads EXCEPT ![i].pc = "q_cart",
                                           ![i].user = Some(FirstRow(found))]
        /\ UNCHANGED <<db, last, streak, added, writer, txn, units, solo, bvars>>

\* lines 209-211: INSERT INTO users; telegram_id is unique (line 18)
InsertUser(i) ==
    LET d == IF writer = i THEN txn ELSE db
        new == [id |-> NextId(d.users), telegram_id |-> threads[i].user_id,
                username |-> None, is_admin |-> FALSE]
    IN  /\ threads[i].pc = "ins_user"
        /\ CanWrite(i)
        /\ IF \E u \in d.users : u.telegram_id = threads[i].user_id
           THEN Fails(i)
           ELSE /\ writer' = i
                /\ txn' = [d EXCEPT !.users = @ \cup {new}]
                /\ threads' = [threads EXCEPT ![i].pc = "q_cart",
                                              ![i].user = Some(new)]
                /\ UNCHANGED <<db, last, streak, added, units, solo, bvars>>

\* line 214
QueryCart(i) ==
    LET found == {c \in View(i).carts : c.user_id = threads[i].user[1].id}
    IN  /\ threads[i].pc = "q_cart"
        /\ threads' = IF found = {}
                      THEN [threads EXCEPT ![i].pc = "ins_cart"]
                      ELSE [threads EXCEPT ![i].pc = "q_product",
                                           ![i].cart = Some(FirstRow(found))]
        /\ UNCHANGED <<db, last, streak, added, writer, txn, units, solo, bvars>>

\* lines 216-218: INSERT INTO carts
InsertCart(i) ==
    LET d == IF writer = i THEN txn ELSE db
        new == [id |-> NextId(d.carts), user_id |-> threads[i].user[1].id]
    IN  /\ threads[i].pc = "ins_cart"
        /\ CanWrite(i)
        /\ writer' = i
        /\ txn' = [d EXCEPT !.carts = @ \cup {new}]
        /\ threads' = [threads EXCEPT ![i].pc = "q_product",
                                      ![i].cart = Some(new)]
        /\ UNCHANGED <<db, last, streak, added, units, solo, bvars>>

\* lines 221-223
QueryProduct(i) ==
    /\ threads[i].pc = "q_product"
    /\ IF {p \in View(i).products : p.id = threads[i].product_id} = {}
       THEN Fails(i)
       ELSE /\ threads' = [threads EXCEPT ![i].pc = "q_item"]
            /\ UNCHANGED <<db, last, streak, added, writer, txn, units, solo, bvars>>

\* lines 226-229
QueryItem(i) ==
    LET found == {x \in View(i).cart_items :
                    /\ x.cart_id = threads[i].cart[1].id
                    /\ x.product_id = threads[i].product_id}
    IN  /\ threads[i].pc = "q_item"
        /\ threads' = [threads EXCEPT ![i].pc = "commit",
                          ![i].cart_item = IF found = {} THEN None
                                           ELSE Some(FirstRow(found))]
        /\ UNCHANGED <<db, last, streak, added, writer, txn, units, solo, bvars>>

\* lines 231-241: the UPDATE of the loaded row to its loaded quantity + 1, or
\* the INSERT of a new CartItem, then COMMIT
Commit(i) ==
    LET d == IF writer = i THEN txn ELSE db
        me == threads[i]
        loaded == me.cart_item[1]
        d1 == IF me.cart_item # None
              THEN [d EXCEPT !.cart_items =
                      {IF x.id = loaded.id
                       THEN [x EXCEPT !.quantity = loaded.quantity + 1]
                       ELSE x : x \in @}]
              ELSE [d EXCEPT !.cart_items = @ \cup
                      {[id |-> NextId(d.cart_items), cart_id |-> me.cart[1].id,
                        product_id |-> me.product_id, quantity |-> 1]}]
    IN  /\ me.pc = "commit"
        /\ CanWrite(i)
        /\ db' = d1
        /\ writer' = 0
        /\ txn' = NoTxn
        /\ threads' = [threads EXCEPT ![i].pc = "done"]
        /\ last' = [op |-> "add_to_cart_db", arg |-> me.user_id,
                    raised |-> FALSE, result |-> None, again |-> FALSE]
        /\ streak' = [streak EXCEPT ![me.user_id][me.product_id] = @ + 1]
        /\ added' = added + 1
        /\ units' = [units EXCEPT ![me.user_id][me.product_id].adds = @ + 1]
        /\ solo' = [solo EXCEPT ![me.user_id] =
                       add_to_cart_db(@, me.user_id, me.product_id, "none").db]
        /\ UNCHANGED bvars

\* Thread i's INSERT or UPDATE waits for another thread's write lock until
\* the busy timeout expires: OperationalError, database is locked
Busy(i) ==
    /\ threads[i].pc \in {"ins_user", "ins_cart", "commit", "o_flush"}
    /\ ~CanWrite(i)
    /\ Fails(i)

\* Thread i enters create_order(user_id)
StartOrder(i, user_id) ==
    /\ threads[i].pc = "idle"
    /\ threads' = [threads EXCEPT ![i] =
          [IdleThread EXCEPT !.pc = "o_user", !.user_id = user_id]]
    /\ UNCHANGED <<db, last, streak, added, writer, txn, units, solo, bvars>>

\* Thread i's create_order returns None (lines 288, 292, 296); session_scope
\* commits a session that has written nothing
OrderReturnsNone(i) ==
    /\ threads' = [threads EXCEPT ![i].pc = "done"]
    /\ last' = [op |-> "create_order", arg |-> threads[i].user_id,
                raised |-> FALSE, result |-> None, again |-> FALSE]
    /\ UNCHANGED <<db, streak, added, writer, txn, units, solo, bvars>>

\* lines 286-288
OrderQueryUser(i) ==
    LET found == {u \in View(i).users : u.telegram_id = threads[i].user_id}
    IN  /\ threads[i].pc = "o_user"
        /\ IF found = {} THEN OrderReturnsNone(i)
           ELSE /\ threads' = [threads EXCEPT ![i].pc = "o_cart",
                                   ![i].user = Some(FirstRow(found))]
                /\ UNCHANGED <<db, last, streak, added, writer, txn, units,
                               solo, bvars>>

\* lines 290-292
OrderQueryCart(i) ==
    LET found == {c \in View(i).carts : c.user_id = threads[i].user[1].id}
    IN  /\ threads[i].pc = "o_cart"
        /\ IF found = {} THEN OrderReturnsNone(i)
           ELSE /\ threads' = [threads EXCEPT ![i].pc = "o_items",
                                   ![i].cart = Some(FirstRow(found))]
                /\ UNCHANGED <<db, last, streak, added, writer, txn, units,
                               solo, bvars>>

\* lines 294-296: the session loads the cart's CartItem rows
OrderQueryItems(i) ==
    LET found == {x \in View(i).cart_items : x.cart_id = threads[i].cart[1].id}
    IN  /\ threads[i].pc = "o_items"
        /\ IF found = {} THEN OrderReturnsNone(i)
           ELSE /\ threads' = [threads EXCEPT ![i].pc = "o_flush",
                                   ![i].items = AllRows(found)]
                /\ UNCHANGED <<db, last, streak, added, writer, txn, units,
                               solo, bvars>>

\* lines 298-300: INSERT INTO orders, which opens the transaction and takes
\* the write lock
OrderFlush(i) ==
    LET d == IF writer = i THEN txn ELSE db
        order == [id |-> NextId(d.orders), user_id |-> threads[i].user[1].id]
    IN  /\ threads[i].pc = "o_flush"
        /\ CanWrite(i)
        /\ writer' = i
        /\ txn' = [d EXCEPT !.orders = @ \cup {order}]
        /\ threads' = [threads EXCEPT ![i].pc = "o_commit",
                                      ![i].order = Some(order)]
        /\ UNCHANGED <<db, last, streak, added, units, solo, bvars>>

\* lines 302-312 and the commit of session_scope: one OrderItem per CartItem
\* the session loaded at line 294, with the loaded product_id and quantity
\* and the price of the product as the transaction sees it; then DELETE
\* FROM cart_items WHERE cart_id = <the cart's id>; then COMMIT.  The
\* thread holds the write lock throughout.
OrderCommit(i) ==
    LET me == threads[i]
        order == me.order[1]
        n == Len(me.items)
        d2 == copy_items(txn, order.id, me.items, n)
        d3 == delete_cart_items(d2, me.cart[1].id)
    IN  /\ me.pc = "o_commit"
        /\ writer = i
        /\ IF \E k \in 1..n : product_of(txn, me.items[k]) = {}
           THEN Fails(i)
           ELSE /\ db' = d3
                /\ writer' = 0
                /\ txn' = NoTxn
                /\ threads' = [threads EXCEPT ![i].pc = "done"]
                /\ last' = [op |-> "create_order", arg |-> me.user_id,
                            raised |-> FALSE, result |-> Some(order.id),
                            again |-> FALSE]
                /\ streak' = [streak EXCEPT ![me.user_id] =
                                 [p \in ProductIds |-> 0]]
                /\ solo' = [solo EXCEPT ![me.user_id] =
                               create_order(@, me.user_id, "none").db]
                /\ UNCHANGED <<added, units, bvars>>

NextConc ==
    \/ \E i \in Threads, t \in TgIds, p \in {1, 3} : Start(i, t, p)
    \/ \E i \in Threads : QueryUser(i)
    \/ \E i \in Threads : InsertUser(i)
    \/ \E i \in Threads : QueryCart(i)
    \/ \E i \in Threads : InsertCart(i)
    \/ \E i \in Threads : QueryProduct(i)
    \/ \E i \in Threads : QueryItem(i)
    \/ \E i \in Threads : Commit(i)
    \/ \E i \in Threads : Busy(i)

SpecConc == InitConc /\ [][NextConc]_vars

\* SpecConcOrder: threads that call add_to_cart_db(user, 1) or
\* create_order(user)
NextConcOrder ==
    \/ \E i \in Threads, t \in TgIds : Start(i, t, 1)
    \/ \E i \in Threads, t \in TgIds : StartOrder(i, t)
    \/ \E i \in Threads : QueryUser(i)
    \/ \E i \in Threads : InsertUser(i)
    \/ \E i \in Threads : QueryCart(i)
    \/ \E i \in Threads : InsertCart(i)
    \/ \E i \in Threads : QueryProduct(i)
    \/ \E i \in Threads : QueryItem(i)
    \/ \E i \in Threads : Commit(i)
    \/ \E i \in Threads : OrderQueryUser(i)
    \/ \E i \in Threads : OrderQueryCart(i)
    \/ \E i \in Threads : OrderQueryItems(i)
    \/ \E i \in Threads : OrderFlush(i)
    \/ \E i \in Threads : OrderCommit(i)
    \/ \E i \in Threads : Busy(i)

SpecConcOrder == InitConc /\ [][NextConcOrder]_vars

---------------------------------------------------------------------------
(* Properties of the cart store and the order engine *)

UserOf(d, t) == {u \in d.users : u.telegram_id = t}

CartsOf(d, t) == {c \in d.carts : \E u \in UserOf(d, t) : c.user_id = u.id}

\* The CartItems in the cart of the user with telegram id t
ItemsOf(d, t) == {i \in d.cart_items : \E c \in CartsOf(d, t) : i.cart_id = c.id}

OrdersOf(d, t) == {o \in d.orders : \E u \in UserOf(d, t) : o.user_id = u.id}

PriceOf(d, p) == FirstRow({q \in d.products : q.id = p}).price

\* C1: a create_order that fails after the Order row was flushed, after an
\* OrderItem was copied or after the cart rows were deleted leaves the store
\* exactly as it was; and whenever create_order changes the store at all, the
\* new Order holds one item per CartItem of the cart and the cart is empty.
C1_OrderAllOrNothing ==
    \A t \in TgIds : \A f \in OrderFailPoints :
        LET r == create_order(db, t, f)
            new_orders == r.db.orders \ db.orders
        IN  /\ (f # "none" /\ ItemsOf(db, t) # {}) => (r.raised /\ r.db = db)
            /\ r.raised => r.db = db
            /\ r.db # db =>
                 /\ Cardinality(new_orders) = 1
                 /\ \A o \in new_orders :
                       Cardinality({i \in r.db.order_items : i.order_id = o.id})
                         = Cardinality(ItemsOf(db, t))
                 /\ ItemsOf(r.db, t) = {}

\* A create_order call failed on a cart of two items: no order exists and the
\* cart still holds both
C1_Witness ==
    /\ last.op = "create_order"
    /\ last.raised
    /\ Cardinality(ItemsOf(db, last.arg)) = 2
    /\ db.orders = {}
    /\ db.order_items = {}

\* C2: create_order on a cart with at least one item returns the id of exactly
\* one new Order owned by the user, with exactly one OrderItem per CartItem
\* carrying its product, its quantity and the product's price in the store at
\* that moment; earlier orders are untouched and the cart is empty afterwards.
C2_OrderCopiesCart ==
    \A t \in TgIds :
        LET r == create_order(db, t, "none")
            items == ItemsOf(db, t)
            new_orders == r.db.orders \ db.orders
            new_items == r.db.order_items \ db.order_items
        IN  items # {} =>
              /\ ~r.raised
              /\ r.result # None
              /\ db.orders \subseteq r.db.orders
              /\ db.order_items \subseteq r.db.order_items
              /\ Cardinality(new_orders) = 1
              /\ \A o \in new_orders :
                    /\ o.id = r.result[1]
                    /\ \E u \in UserOf(db, t) : o.user_id = u.id
                    /\ \A n \in new_items : n.order_id = o.id
              /\ Cardinality(new_items) = Cardinality(items)
              /\ \A i \in items :
                    Cardinality({n \in new_items :
                        /\ n.product_id = i.product_id
                        /\ n.quantity = i.quantity
                        /\ n.price = PriceOf(db, i.product_id)}) = 1
              /\ ItemsOf(r.db, t) = {}
              /\ r.db.cart_items = db.cart_items \ items

\* A create_order call just returned an order of two items, one of them
\* product 1 bought at 5 although the catalog started with it at 10
C2_Witness ==
    /\ last.op = "create_order"
    /\ last.result # None
    /\ ItemsOf(db, last.arg) = {}
    /\ Cardinality({n \in db.order_items : n.order_id = last.result[1]}) = 2
    /\ \E n \in db.order_items :
          /\ n.order_id = last.result[1]
          /\ n.product_id = 1
          /\ n.quantity = 2
          /\ n.price = 5

TotalOf(d, o) == get_order_details(d, o).result[1].total

\* C3: in every step, an OrderItem that comes into being records the price
\* its product has at that moment, every OrderItem that exists stays as it
\* is, and the total get_order_details reports for an existing order stays
\* the same -- whatever the step does to the product's price.
C3_PriceSnapshot ==
    [][ /\ \A n \in db'.order_items \ db.order_items :
              n.price = PriceOf(db, n.product_id)
        /\ db.order_items \subseteq db'.order_items
        /\ \A o \in db.orders : TotalOf(db', o.id) = TotalOf(db, o.id)
      ]_vars

\* get_order_details just reported the total of an order whose product has
\* since changed its price: the total is the one of the recorded price
C3_Witness ==
    /\ last.op = "get_order_details"
    /\ last.result # None
    /\ \E n \in db.order_items :
          /\ n.order_id = last.arg
          /\ n.price # PriceOf(db, n.product_id)
          /\ last.result[1].total = n.price * n.quantity

\* C4: at most one CartItem for each (cart, product) pair.
C4_OneItemPerCartProduct ==
    \A c \in db.carts : \A p \in ProductIds :
        Cardinality({i \in db.cart_items :
                        i.cart_id = c.id /\ i.product_id = p}) <= 1

\* Both users hold a cart, one of them with a product added twice, after an
\* order was made
C4_Witness ==
    /\ Cardinality(db.carts) = 2
    /\ db.orders # {}
    /\ \E i \in db.cart_items : i.quantity = 2

\* C5: after N >= 1 successful add_to_cart_db(u, p) calls since u's cart last
\* held no item for p, the cart holds exactly one CartItem for p and its
\* quantity is N.
C5_QuantityCountsAdds ==
    \A t \in TgIds : \A p \in ProductIds :
        streak[t][p] >= 1 =>
            /\ Cardinality(CartRows(db, t, p)) = 1
            /\ \A i \in CartRows(db, t, p) : i.quantity = streak[t][p]

\* Three adds in a row of one product by one user
C5_Witness ==
    /\ last.op = "add_to_cart_db"
    /\ ~last.raised
    /\ \E p \in ProductIds :
          /\ streak[last.arg][p] = 3
          /\ \E i \in CartRows(db, last.arg, p) : i.quantity = 3

\* C6: add_to_cart_db with a product id that does not exist, or struck by a
\* failure after the user block, after the cart block or at the commit,
\* raises and leaves the store as it was: no user, cart or cart item is
\* added or changed.
C6_FailedAddChangesNothing ==
    \A t \in TgIds : \A p \in ProductIds : \A f \in AddFailPoints :
        LET r == add_to_cart_db(db, t, p, f)
        IN  /\ ({q \in db.products : q.id = p} = {} \/ f # "none") =>
                 (r.raised /\ r.db = db)
            /\ r.raised => r.db = db

\* add_to_cart_db just failed for a telegram id the store does not know,
\* while the other user holds a cart with an item
C6_Witness ==
    /\ last.op = "add_to_cart_db"
    /\ last.raised
    /\ UserOf(db, last.arg) = {}
    /\ db.cart_items # {}

\* C7: create_order for a user who does not exist, has no cart, or has a cart
\* with no items returns None without raising and leaves the store as it was.
C7_NoOrderWithoutItems ==
    \A t \in TgIds : \A f \in OrderFailPoints :
        LET r == create_order(db, t, f)
        IN  ItemsOf(db, t) = {} =>
                (~r.raised /\ r.result = None /\ r.db = db)

\* create_order just returned None for a user who has an order and an empty
\* cart (the cart was converted; the call after it finds nothing to convert)
C7_Witness ==
    /\ last.op = "create_order"
    /\ ~last.raised
    /\ last.result = None
    /\ OrdersOf(db, last.arg) # {}
    /\ CartsOf(db, last.arg) # {}
    /\ ItemsOf(db, last.arg) = {}
    /\ added = 1

---------------------------------------------------------------------------
(* Properties of the catalog exchange *)

CategoryIds(d, name) == {c.id : c \in {x \in d.categories : x.name = name}}

\* C9: an import_products of the snapshot that the call just before it
\* imported reports success and leaves every table as it is: nothing is
\* inserted the second time.
C9_ImportTwice ==
    [][ (last'.op = "import_products" /\ last'.again /\ last'.arg # None)
            => (last'.result = TRUE /\ db' = db) ]_vars

\* The same snapshot, listing one (name, category) pair twice, was imported
\* twice in a row; exactly one product carries the pair
C9_Witness ==
    /\ last.op = "import_products"
    /\ last.again
    /\ last.result = TRUE
    /\ last.arg # None
    /\ Len(last.arg[1]) = 2
    /\ last.arg[1][1].name = last.arg[1][2].name
    /\ last.arg[1][1].category = last.arg[1][2].category
    /\ last.arg[1][1].category # "Unknown"
    /\ Cardinality({p \in db.products : p.name = last.arg[1][1].name
           /\ p.category_id \in CategoryIds(db, last.arg[1][1].category)}) = 1

\* Entry e names a category that exists in d
KnownCategory(d, e) == CategoryIds(d, e.category) # {}

\* Product row q carries the (name, category) of entry e
Carries(d, q, e) ==
    q.name = e.name /\ q.category_id \in CategoryIds(d, e.category)

\* C10: import_products of a snapshot succeeds whether or not entries name a
\* category that does not exist; it keeps every product there was; every
\* entry with an existing category whose (name, category) no product carried
\* before the call is carried by an inserted product afterwards, wherever
\* the entry stands in the snapshot; and every inserted product comes from
\* such an entry, never from one with an unknown category.
C10_ImportSkipsUnknown ==
    \A S \in Snapshots :
        LET r == import_products(db, Some(S))
            inserted == r.db.products \ db.products
            wanted == {k \in 1..Len(S) :
                         /\ KnownCategory(db, S[k])
                         /\ ~\E q \in db.products : Carries(db, q, S[k])}
        IN  /\ ~r.raised
            /\ r.result = TRUE
            /\ db.products \subseteq r.db.products
            /\ \A k \in wanted : \E q \in inserted : Carries(db, q, S[k])
            /\ \A q \in inserted : \E k \in wanted : Carries(db, q, S[k])

\* A snapshot whose first entry names an unknown category and whose second
\* entry names an existing one was imported: the import succeeded and the
\* catalog holds the second entry's product and nothing else
C10_Witness ==
    /\ last.op = "import_products"
    /\ last.result = TRUE
    /\ last.arg # None
    /\ Len(last.arg[1]) = 2
    /\ ~KnownCategory(db, last.arg[1][1])
    /\ KnownCategory(db, last.arg[1][2])
    /\ Cardinality(db.products) = 1
    /\ \A q \in db.products :
          Carries(db, q, last.arg[1][2]) /\ q.price = last.arg[1][2].price

---------------------------------------------------------------------------
(* Properties of concurrent add_to_cart_db calls *)

\* No add_to_cart_db call is in flight
Quiescent == \A i \in Threads : threads[i].pc \in {"idle", "done", "failed"}

\* C8: whenever no call is in flight, every user has at most one cart, and
\* for every user u and product p with N >= 1 successful add_to_cart_db(u, p)
\* calls since u's cart was last emptied -- however the calls overlapped --
\* the cart holds exactly one CartItem for p and its quantity is N.
C8_NoLostIncrement ==
    Quiescent =>
        \A t \in TgIds :
            /\ Cardinality(CartsOf(db, t)) <= 1
            /\ \A p \in ProductIds :
                  streak[t][p] >= 1 =>
                      /\ Cardinality(CartRows(db, t, p)) = 1
                      /\ \A x \in CartRows(db, t, p) : x.quantity = streak[t][p]

---------------------------------------------------------------------------
(* Properties of the shop as a whole *)

CategoryName(d, q) == FirstRow({c \in d.categories : c.id = q.category_id}).name

\* An entry with the name and category of product q and with another
\* description, price and image
Clash(d, q) ==
    [name |-> q.name, description |-> q.description \o "*",
     price |-> q.price + 5, category |-> CategoryName(d, q),
     image_path |-> q.image_path \o "*"]

\* What import_products may load in store d: the content of each file of the
\* directory, and for each product a snapshot of an entry that clashes with
\* it, before and after an entry for a product the store does not have
Loadable(d, fs) ==
    {fs[n] : n \in DOMAIN fs}
      \cup {Some(<<Clash(d, q)>>) : q \in d.products}
      \cup {Some(<<Clash(d, q), ShopSnapshot[2]>>) : q \in d.products}
      \cup {Some(<<ShopSnapshot[2], Clash(d, q)>>) : q \in d.products}

\* C11: import_products keeps every Product row as it is (id, name,
\* description, price, category, image_path), also when the snapshot holds
\* an entry with the same (name, category) and another price or description;
\* it deletes no product and leaves users, carts, cart items, orders and
\* order items as they are.
C11_ImportAddOnly ==
    \A loaded \in Loadable(db, files) :
        LET r == import_products(db, loaded)
        IN  /\ db.products \subseteq r.db.products
            /\ r.db.users = db.users
            /\ r.db.carts = db.carts
            /\ r.db.cart_items = db.cart_items
            /\ r.db.orders = db.orders
            /\ r.db.order_items = db.order_items

\* import_products just succeeded on a snapshot with an entry for a product
\* the store had, at another price, and added the snapshot's other product;
\* the store holds an order and a cart with an item
C11_Witness ==
    /\ last.op = "import_products"
    /\ last.result = TRUE
    /\ last.arg # None
    /\ \E k \in 1..Len(last.arg[1]) : \E q \in db.products :
          /\ Carries(db, q, last.arg[1][k])
          /\ q.price # last.arg[1][k].price
          /\ q.description # last.arg[1][k].description
    /\ Cardinality(db.products) = 2
    /\ db.orders # {}
    /\ db.cart_items # {}

---------------------------------------------------------------------------
(* Properties of the catalog exchange on the backups directory *)

\* C12: after k export_products calls that returned a file, whatever the
\* time between them, k distinct files exist and each holds the list its own
\* call wrote.
C12_ExportNeverOverwrites ==
    /\ Cardinality({exported[k].file : k \in 1..Len(exported)}) = Len(exported)
    /\ \A k \in 1..Len(exported) :
          /\ exported[k].file \in DOMAIN files
          /\ files[exported[k].file] = Some(exported[k].content)

\* The keys import_products reads from an entry (lines 395-412)
RequiredKeys == {"name", "description", "price", "category", "image_path"}

\* What import_products may load from the directory fs, whichever file is
\* named, and from the operator's files
Loads(fs) ==
    OperatorFiles \cup {read_backup(fs, None)}
                  \cup {read_backup(fs, Some(n)) : n \in 0..MaxClock}

\* C13 as stated: whenever there is no file to load, the file is not
\* well-formed, or some entry of the snapshot lacks a required key,
\* import_products returns False without raising and leaves the store as it
\* was.
C13_MalformedEntryFails ==
    \A loaded \in Loads(files) :
        LET r == import_products(db, loaded)
        IN  (\/ loaded = None
             \/ \E k \in 1..Len(loaded[1]) : DOMAIN loaded[1][k] # RequiredKeys)
            => (~r.raised /\ r.result = FALSE /\ r.db = db)

\* Entry k of snapshot S lacks a key that its turn of the loop reads in
\* store d: 'category' or 'name'; or any other key while its category
\* exists and neither a product of d nor an earlier entry of S carries its
\* (name, category)
ReadsMissingKey(d, S, k) ==
    \/ "category" \notin DOMAIN S[k]
    \/ "name" \notin DOMAIN S[k]
    \/ /\ DOMAIN S[k] # RequiredKeys
       /\ KnownCategory(d, S[k])
       /\ ~\E q \in d.products : Carries(d, q, S[k])
       /\ ~\E j \in 1..(k - 1) :
              /\ {"category", "name"} \subseteq DOMAIN S[j]
              /\ S[j].name = S[k].name
              /\ S[j].category = S[k].category

\* C13, amended: import_products never raises; it returns False exactly
\* when there is no file to load, the file is not well-formed, or an entry
\* lacks a key that its turn of the loop reads; and whenever it returns
\* False the store is as it was, the products added by earlier entries of
\* the snapshot included.  (An entry that lacks 'description', 'price' or
\* 'image_path' and whose (name, category) is already carried is skipped
\* like a well-formed one.)
C13_FailedImportChangesNothing ==
    \A loaded \in Loads(files) :
        LET r == import_products(db, loaded)
            fails == \/ loaded = None
                     \/ \E k \in 1..Len(loaded[1]) :
                           ReadsMissingKey(db, loaded[1], k)
        IN  /\ ~r.raised
            /\ r.result = ~fails
            /\ r.result = FALSE => r.db = db

\* import_products just returned False on a snapshot whose first entry is
\* well-formed and new to the store and whose second entry lacks 'price':
\* the store, which holds a product, has no product of the first entry
C13_Witness ==
    /\ last.op = "import_products"
    /\ last.result = FALSE
    /\ last.arg # None
    /\ Len(last.arg[1]) = 2
    /\ DOMAIN last.arg[1][1] = RequiredKeys
    /\ KnownCategory(db, last.arg[1][1])
    /\ "price" \notin DOMAIN last.arg[1][2]
    /\ db.products # {}
    /\ ~\E q \in db.products : Carries(db, q, last.arg[1][1])

\* The OrderItem rows of order o in store d
OrderItemsOf(d, o) == {i \in d.order_items : i.order_id = o.id}

\* C14: whatever a step does -- add_user, add_to_cart_db, clear_cart,
\* create_order (failing ones included), import_products, export_products --
\* every Order row of the store is still there afterwards, with the same
\* user, and its OrderItem rows (product, quantity, price) are exactly the
\* ones it had.
C14_OrdersPermanent ==
    [][ \A o \in db.orders :
           /\ o \in db'.orders
           /\ OrderItemsOf(db', o) = OrderItemsOf(db, o)
      ]_vars

\* Two users each have an order with an item; after the orders were made,
\* import_products has just added a product, and an export has been written
C14_Witness ==
    /\ last.op = "import_products"
    /\ last.result = TRUE
    /\ Cardinality(db.products) = 2
    /\ exported # <<>>
    /\ \A t \in TgIds :
          \E o \in OrdersOf(db, t) : OrderItemsOf(db, o) # {}

---------------------------------------------------------------------------
(* Further properties of the cart store and the order engine *)

\* C15: clear_cart(u) never raises; it returns True exactly when user u
\* exists and has a Cart row, and then u's cart holds no item and nothing
\* else has changed; otherwise it returns False and the store is as it was;
\* a second clear_cart(u) returns the same and leaves the store as the first
\* left it.
C15_ClearCart ==
    \A t \in TgIds :
        LET r == clear_cart(db, t)
            again == clear_cart(r.db, t)
        IN  /\ ~r.raised
            /\ r.result = (UserOf(db, t) # {} /\ CartsOf(db, t) # {})
            /\ r.result = TRUE =>
                 /\ ItemsOf(r.db, t) = {}
                 /\ r.db = [db EXCEPT !.cart_items = @ \ ItemsOf(db, t)]
            /\ r.result = FALSE => r.db = db
            /\ ~again.raised
            /\ again.result = r.result
            /\ again.db = r.db

\* clear_cart just returned True for a user whose cart is empty; three units
\* were added and none was ordered, and the only one left is in the other
\* user's cart
C15_Witness ==
    /\ last.op = "clear_cart"
    /\ last.result = TRUE
    /\ ItemsOf(db, last.arg) = {}
    /\ added = 3
    /\ db.orders = {}
    /\ Cardinality(db.cart_items) = 1
    /\ \A i \in db.cart_items : i.quantity = 1

\* The rows of store d that belong to the user with telegram id t
RowsOf(d, t) ==
    [users |-> UserOf(d, t), carts |-> CartsOf(d, t), cart_items |-> ItemsOf(d, t),
     orders |-> OrdersOf(d, t),
     order_items |-> {i \in d.order_items :
                         \E o \in OrdersOf(d, t) : i.order_id = o.id}]

\* What the user with telegram id t has in store d, without the row ids:
\* whether the user is known, the carts, the (product, quantity) of the cart's
\* items, and the orders in the order they were made, each as the (product,
\* quantity, price) of its items
ContentOf(d, t) ==
    LET orders == AllRows(OrdersOf(d, t))
    IN  [known |-> UserOf(d, t) # {},
         carts |-> Cardinality(CartsOf(d, t)),
         rows  |-> Cardinality(ItemsOf(d, t)),
         cart  |-> {<<i.product_id, i.quantity>> : i \in ItemsOf(d, t)},
         orders |-> [k \in 1..Len(orders) |->
                       {<<i.id - FirstRow(OrderItemsOf(d, orders[k])).id,
                          i.product_id, i.quantity, i.price>> :
                            i \in OrderItemsOf(d, orders[k])}]]

RECURSIVE Amount(_, _)
Amount(S, price_of) ==
    IF S = {} THEN 0
    ELSE LET x == CHOOSE y \in S : TRUE
         IN  x.quantity * price_of[x] + Amount(S \ {x}, price_of)

\* C17: for every order of the store get_order_details reports as total the
\* sum of quantity * recorded price over the order's items; right after a
\* create_order that returns an order, the total of that order is the sum of
\* quantity * product price over the items the cart held before the call, and
\* the cart is empty; for an id that is no order's, get_order_details returns
\* None and does not raise.
C17_OrderTotal ==
    LET recorded == [i \in db.order_items |-> i.price]
        current == [i \in db.cart_items |-> PriceOf(db, i.product_id)]
    IN  /\ \A o \in db.orders :
              LET r == get_order_details(db, o.id)
              IN  /\ ~r.raised
                  /\ r.result # None
                  /\ r.result[1].total = Amount(OrderItemsOf(db, o), recorded)
        /\ \A t \in TgIds :
              LET r == create_order(db, t, "none")
              IN  r.result # None =>
                    /\ get_order_details(r.db, r.result[1]).result[1].total
                         = Amount(ItemsOf(db, t), current)
                    /\ ItemsOf(r.db, t) = {}
        /\ \A id \in 1..(MaxAdds + 1) :
              (\A o \in db.orders : o.id # id) =>
                  LET r == get_order_details(db, id)
                  IN  ~r.raised /\ r.result = None

\* get_order_details just reported the total 25 for an order of two units of
\* product 1 at 10 and one unit of product 2 at 5; the buyer's cart is empty
C17_Witness ==
    /\ last.op = "get_order_details"
    /\ last.result # None
    /\ last.result[1].total = 25
    /\ {<<i.product_id, i.quantity, i.price>> :
           i \in {x \in db.order_items : x.order_id = last.arg}}
         = {<<1, 2, 10>>, <<2, 1, 5>>}
    /\ ItemsOf(db, last.result[1].user_id) = {}

---------------------------------------------------------------------------
(* Properties of concurrent add_to_cart_db and create_order calls *)

\* Sum of the quantities of the rows S
RECURSIVE Units(_)
Units(S) ==
    IF S = {} THEN 0
    ELSE LET x == CHOOSE y \in S : TRUE
         IN  x.quantity + Units(S \ {x})

\* Units of product p in the OrderItems of the orders of the user with
\* telegram id t
OrderedUnits(d, t, p) ==
    Units({i \in d.order_items :
              /\ i.product_id = p
              /\ \E o \in OrdersOf(d, t) : i.order_id = o.id})

\* The threads that have called add_to_cart_db for the user with telegram
\* id t
Adders(t) ==
    {i \in Threads : /\ threads[i].user_id = t
                     /\ threads[i].product_id # 0}

\* C18: whenever no call is in flight, however create_order calls for a user
\* overlapped each other and add_to_cart_db calls: the user's orders hold no
\* more units of a product than successful add_to_cart_db calls have added
\* (no cart item is copied into two orders), and -- when at most one
\* add_to_cart_db call ran for the user beside the create_order calls --
\* every unit added is in the cart, in an order or was cleared (no added
\* unit is deleted from the cart without appearing in an order).
C18_CartConvertedOnce ==
    Quiescent =>
        \A t \in TgIds : \A p \in ProductIds :
            /\ OrderedUnits(db, t, p) <= units[t][p].adds
            /\ Cardinality(Adders(t)) <= 1 =>
                  units[t][p].adds <= Units(CartRows(db, t, p))
                                        + OrderedUnits(db, t, p)
                                        + units[t][p].cleared

---------------------------------------------------------------------------
(* Conservation of units *)

\* C19: in every state that completed add_to_cart_db, clear_cart and
\* create_order calls (failing ones included) lead to, for every user and
\* product the number of successful add_to_cart_db calls so far is the
\* quantity of the product in the user's cart, plus the quantities of the
\* product over the OrderItems of the user's orders, plus the units of the
\* product that the user's clear_cart calls have deleted.
C19_UnitsConserved ==
    \A t \in TgIds : \A p \in ProductIds :
        units[t][p].adds = Units(CartRows(db, t, p))
                             + OrderedUnits(db, t, p)
                             + units[t][p].cleared

\* A user has added a product three times: one unit was ordered, one was
\* cleared and one is in the cart
C19_Witness ==
    \E t \in TgIds : \E p \in ProductIds :
        /\ units[t][p].adds = 3
        /\ units[t][p].cleared = 1
        /\ OrderedUnits(db, t, p) = 1
        /\ Units(CartRows(db, t, p)) = 1

---------------------------------------------------------------------------
(* The round trip of the catalog through a backup file *)

\* What a product row of store d says, without its id: name, description,
\* price, name of its category, image_path
ProductValue(d, p) ==
    <<p.name, p.description, p.price, CategoryName(d, p),
      p.image_path>>

\* The products of store d as a multiset: how many rows say each thing
ProductBag(d) ==
    LET values == {ProductValue(d, p) : p \in d.products}
    IN  [v \in values |->
            Cardinality({p \in d.products : ProductValue(d, p) = v})]

\* export_products succeeds, and import_products of the file it wrote, into
\* the store with the same categories and no product, succeeds and yields
\* the products of db as a multiset
RestoresCatalog ==
    LET e == export_products(db, files, clock, "none")
        r == import_backup([db EXCEPT !.products = {}], e.files, e.result)
    IN  /\ e.result # None
        /\ ~r.raised
        /\ r.result = TRUE
        /\ ProductBag(r.db) = ProductBag(db)

\* import_products of the file export_products wrote, into the store that
\* was exported, succeeds and leaves every table as it is
KeepsCatalog ==
    LET e == export_products(db, files, clock, "none")
        r == import_backup(db, e.files, e.result)
    IN  /\ e.result # None
        /\ ~r.raised
        /\ r.result = TRUE
        /\ r.db = db

\* C20: for every catalog that add_product and import_products calls lead
\* to, exporting it and importing the file into a store with the same
\* categories and no product reproduces the multiset of products (name,
\* description, price, category name, image_path), and exporting it and
\* importing the file into the same store leaves the catalog unchanged.
C20_RoundTrip == RestoresCatalog /\ KeepsCatalog

===========================================================================
